---- MODULE Spec2Model ----
(***************************************************************************)
(* The mDNS/DNS-SD responder of package bonjour: one registration          *)
(* (Server), its two receive loops, its probe/announce driver, SetText,    *)
(* TTL and Shutdown; the calls that construct it (Register,                *)
(* RegisterProxy, newServer); the derived names of a ServiceRecord; and    *)
(* the channels of a LookupParams.                                         *)
(*                                                                         *)
(* The repository holds two definitions of the responder: the one of       *)
(* src/unnamed/part_000 and the one that follows the ServiceEntry code in  *)
(* src/service.go (from line 110 on).  The variable `build` says which of  *)
(* the two a registration runs; the places where they differ are           *)
(* handleQuestion, composeLookupAnswers and the repetition count of probe. *)
(*                                                                         *)
(* Strings the code inspects (names) are sequences of one-character        *)
(* strings; strings it only carries (TXT items, IP addresses) are atoms.   *)
(***************************************************************************)
EXTENDS Integers, Sequences, FiniteSets, TLC

\* ------------------------------------------------------------------------
\* Strings
\* ------------------------------------------------------------------------

Dot == <<".">>

\* strings.HasSuffix(s, suffix)
HasSuffix(s, suffix) ==
    /\ Len(suffix) <= Len(s)
    /\ SubSeq(s, Len(s) - Len(suffix) + 1, Len(s)) = suffix

\* trimDot: one leading and one trailing "." are removed when present.
trimDot(s) ==
    LET a == IF Len(s) > 0 /\ s[1] = "." THEN SubSeq(s, 2, Len(s)) ELSE s
    IN  IF Len(a) > 0 /\ a[Len(a)] = "." THEN SubSeq(a, 1, Len(a) - 1) ELSE a

localDomain == <<"l", "o", "c", "a", "l">>

\* "_services._dns-sd._udp."
ServicesPrefix ==
    <<"_", "s", "e", "r", "v", "i", "c", "e", "s", ".",
      "_", "d", "n", "s", "-", "s", "d", ".",
      "_", "u", "d", "p", ".">>

\* ------------------------------------------------------------------------
\* ServiceRecord: the derived names and their caches
\* ------------------------------------------------------------------------

ServiceNameUntrimmed(e) ==
    IF e.serviceName = <<>>
    THEN e.Service \o Dot \o e.Domain \o Dot
    ELSE e.serviceName

\* ServiceName(): the value returned; the cache field is filled by Cached.
ServiceName(e) ==
    IF e.serviceName = <<>>
    THEN trimDot(e.Service) \o Dot \o trimDot(e.Domain) \o Dot
    ELSE e.serviceName

ServiceInstanceName(e) ==
    IF e.Instance = <<>> THEN <<>>
    ELSE IF e.serviceInstanceName = <<>>
         THEN trimDot(e.Instance) \o Dot \o ServiceName(e)
         ELSE e.serviceInstanceName

ServiceTypeName(e) ==
    IF e.serviceTypeName = <<>>
    THEN ServicesPrefix
           \o (IF Len(e.Domain) > 0 THEN trimDot(e.Domain) ELSE localDomain)
           \o Dot
    ELSE e.serviceTypeName

\* The entry after the getters named in `calls` have run: each fills its
\* cache field on its first call.  ServiceInstanceName() calls ServiceName()
\* when it composes.
Cached(e, calls) ==
    LET inst == "ServiceInstanceName" \in calls /\ e.Instance # <<>>
        name == "ServiceName" \in calls
                  \/ (inst /\ e.serviceInstanceName = <<>>)
        e1   == IF name THEN [e EXCEPT !.serviceName = ServiceName(e)] ELSE e
        e2   == IF inst
                THEN [e1 EXCEPT !.serviceInstanceName = ServiceInstanceName(e1)]
                ELSE e1
    IN  IF "ServiceTypeName" \in calls
        THEN [e2 EXCEPT !.serviceTypeName = ServiceTypeName(e2)]
        ELSE e2

\* ------------------------------------------------------------------------
\* DNS messages (the part of dns.Msg the responder reads and writes)
\* ------------------------------------------------------------------------

TypePTR  == "PTR"
TypeSRV  == "SRV"
TypeTXT  == "TXT"
TypeA    == "A"
TypeAAAA == "AAAA"

ClassINET   == 1
cache_flush == 32768      \* uint16(1 << 15)

\* x & (1 << 15) != 0 on a 16-bit value
TopBit(x) == (x \div cache_flush) % 2 = 1

\* uint16(x)
Uint16(x) == x % 65536

RR(name, rrtype, class, ttl, rdata) ==
    [name |-> name, rrtype |-> rrtype, class |-> class, ttl |-> ttl,
     rdata |-> rdata]

\* new(dns.Msg) / dns.Msg{}
EmptyMsg ==
    [response |-> FALSE, question |-> <<>>, answer |-> <<>>, ns |-> <<>>,
     extra |-> <<>>]

\* resp.SetReply(query): a response that repeats the first question.
SetReply(query) ==
    [EmptyMsg EXCEPT
        !.response = TRUE,
        !.question = IF Len(query.question) > 0
                     THEN <<query.question[1]>> ELSE <<>>]

\* One A (AAAA) record per address of the list, in the list's order.
AddrRecords(addrs, name, rrtype, class, ttl) ==
    [i \in 1..Len(addrs) |->
        RR(name, rrtype, class, ttl, [ip |-> addrs[i]])]

SrvData(e) ==
    [priority |-> 0, weight |-> 0, port |-> Uint16(e.Port),
     target |-> e.HostName]

\* ------------------------------------------------------------------------
\* The responder's answers
\* ------------------------------------------------------------------------

composeBrowsingAnswersFlushed(resp, e, ttl) ==
    [resp EXCEPT
        !.answer = @ \o <<RR(ServiceName(e), TypePTR, ClassINET + cache_flush,
                             ttl, [ptr |-> ServiceInstanceName(e)])>>,
        !.extra  = @ \o <<RR(ServiceInstanceName(e), TypeSRV, ClassINET, ttl,
                             SrvData(e)),
                          RR(ServiceInstanceName(e), TypeTXT, ClassINET, ttl,
                             [txt |-> e.Text])>>
                     \o AddrRecords(e.AddrIPv4, e.HostName, TypeA, ClassINET, ttl)
                     \o AddrRecords(e.AddrIPv6, e.HostName, TypeAAAA, ClassINET,
                                    ttl)]

composeBrowsingAnswers(resp, e, ttl) ==
    [resp EXCEPT
        !.answer = @ \o <<RR(ServiceName(e), TypePTR, ClassINET, ttl,
                             [ptr |-> ServiceInstanceName(e)])>>,
        !.extra  = @ \o <<RR(ServiceInstanceName(e), TypeSRV, ClassINET, ttl,
                             SrvData(e)),
                          RR(ServiceInstanceName(e), TypeTXT, ClassINET, ttl,
                             [txt |-> e.Text])>>
                     \o AddrRecords(e.AddrIPv4, e.HostName, TypeA, ClassINET, ttl)
                     \o AddrRecords(e.AddrIPv6, e.HostName, TypeAAAA, ClassINET,
                                    ttl)]

\* The four records both definitions of composeLookupAnswers append first:
\* srv, txt, ptr, dnssd.
LookupHead(e, ttl) ==
    <<RR(ServiceInstanceName(e), TypeSRV, ClassINET + cache_flush, ttl,
         SrvData(e)),
      RR(ServiceInstanceName(e), TypeTXT, ClassINET + cache_flush, ttl,
         [txt |-> e.Text]),
      RR(ServiceName(e), TypePTR, ClassINET, ttl,
         [ptr |-> ServiceInstanceName(e)]),
      RR(ServiceTypeName(e), TypePTR, ClassINET, ttl,
         [ptr |-> ServiceName(e)])>>

\* composeLookupAnswers of src/unnamed/part_000: the address records go to
\* the Answer section with the ttl of the call.
composeLookupAnswers(resp, e, ttl) ==
    [resp EXCEPT
        !.answer = @ \o LookupHead(e, ttl)
                     \o AddrRecords(e.AddrIPv4, e.HostName, TypeA,
                                    ClassINET + cache_flush, ttl)
                     \o AddrRecords(e.AddrIPv6, e.HostName, TypeAAAA,
                                    ClassINET + cache_flush, ttl)]

oldAddrTTL == 120

\* composeLookupAnswers of src/service.go: the address records go to the
\* Additional section with a TTL of 120.
composeLookupAnswersOld(resp, e, ttl) ==
    [resp EXCEPT
        !.answer = @ \o LookupHead(e, ttl),
        !.extra  = @ \o AddrRecords(e.AddrIPv4, e.HostName, TypeA,
                                    ClassINET + cache_flush, oldAddrTTL)
                     \o AddrRecords(e.AddrIPv6, e.HostName, TypeAAAA,
                                    ClassINET + cache_flush, oldAddrTTL)]

\* Server.serviceTypeName
serviceTypeName(resp, e, ttl) ==
    [resp EXCEPT
        !.answer = @ \o <<RR(ServiceTypeName(e), TypePTR, ClassINET, ttl,
                             [ptr |-> ServiceName(e)])>>]

PartBuild == "part_000"
OldBuild  == "service.go"
Builds    == {PartBuild, OldBuild}

\* The composeLookupAnswers the build links.
Lookup(b, resp, e, ttl) ==
    IF b = PartBuild THEN composeLookupAnswers(resp, e, ttl)
    ELSE composeLookupAnswersOld(resp, e, ttl)

\* handleQuestion of src/unnamed/part_000: the switch on q.Name takes the
\* first case that matches.  The result is the response and the entry with
\* the caches the evaluated getters filled.
handleQuestion(q, resp, e, ttl) ==
    IF q.name = ServiceName(e)
    THEN [resp  |-> composeBrowsingAnswers(resp, e, ttl),
          entry |-> Cached(e, {"ServiceName", "ServiceInstanceName"})]
    ELSE IF q.name = ServiceInstanceName(e) \/ q.name = e.HostName
    THEN [resp  |-> composeLookupAnswers(resp, e, ttl),
          entry |-> Cached(e, {"ServiceName", "ServiceInstanceName",
                               "ServiceTypeName"})]
    ELSE IF q.name = ServiceTypeName(e)
    THEN [resp  |-> serviceTypeName(resp, e, ttl),
          entry |-> Cached(e, {"ServiceName", "ServiceInstanceName",
                               "ServiceTypeName"})]
    ELSE [resp  |-> resp,
          entry |-> Cached(e, {"ServiceName", "ServiceInstanceName",
                               "ServiceTypeName"})]

\* handleQuestion of src/service.go: no case for the host name.
handleQuestionOld(q, resp, e, ttl) ==
    IF q.name = ServiceName(e)
    THEN [resp  |-> composeBrowsingAnswers(resp, e, ttl),
          entry |-> Cached(e, {"ServiceName", "ServiceInstanceName"})]
    ELSE IF q.name = ServiceInstanceName(e)
    THEN [resp  |-> composeLookupAnswersOld(resp, e, ttl),
          entry |-> Cached(e, {"ServiceName", "ServiceInstanceName",
                               "ServiceTypeName"})]
    ELSE IF q.name = ServiceTypeName(e)
    THEN [resp  |-> serviceTypeName(resp, e, ttl),
          entry |-> Cached(e, {"ServiceName", "ServiceInstanceName",
                               "ServiceTypeName"})]
    ELSE [resp  |-> resp,
          entry |-> Cached(e, {"ServiceName", "ServiceInstanceName",
                               "ServiceTypeName"})]

isUnicastQuestionNever(q) == FALSE

isUnicastQuestion(q) == TopBit(q.qclass)

\* ------------------------------------------------------------------------
\* State
\* ------------------------------------------------------------------------

VARIABLES
    build,          \* which definition of the responder runs
    Service,        \* s.Service: the ServiceEntry, with its name caches
    ttl,            \* s.ttl
    ipv4conn,       \* "nil", "open" or "closed"
    ipv6conn,
    shuttingDown,   \* s.shuttingDown
    shutdownLock,   \* s.shutdownLock: 0 when free, else the caller holding it
    pcShutdown,     \* where each caller of Shutdown is
    pcRecv,         \* where each receive loop is
    pkt,            \* the packet a receive loop has read and not yet parsed
    pcProbe,        \* where the probe/announce driver is
    probeI,         \* its loop counter i
    probeMsg,       \* the message it is building or repeating (q, then resp)
    out,            \* the writes of the latest step, in order
    step,           \* the operation the latest step belongs to
    hist,           \* what has happened so far (counters and flags)
    lookup          \* a LookupParams of the client API; NoLookup when none

vars ==
    <<build, Service, ttl, ipv4conn, ipv6conn, shuttingDown, shutdownLock,
      pcShutdown, pcRecv, pkt, pcProbe, probeI, probeMsg, out, step, hist,
      lookup>>

server == <<build, Service, ttl, ipv4conn, ipv6conn, shuttingDown,
            shutdownLock>>

Conns == {"ipv4conn", "ipv6conn"}

ConnState(c) == IF c = "ipv4conn" THEN ipv4conn ELSE ipv6conn

\* ------------------------------------------------------------------------
\* Sending
\* ------------------------------------------------------------------------

\* mDNS endpoint addresses
ipv4Addr == [family |-> "udp4", ip |-> "224.0.0.251"]
ipv6Addr == [family |-> "udp6", ip |-> "ff02::fb"]

IsFqdn(s) == Len(s) > 0 /\ s[Len(s)] = "."

RRNames(rr) ==
    {rr.name}
      \cup (IF rr.rrtype = TypePTR THEN {rr.rdata.ptr} ELSE {})
      \cup (IF rr.rrtype = TypeSRV THEN {rr.rdata.target} ELSE {})

Records(msg) == msg.answer \o msg.ns \o msg.extra

\* msg.Pack() succeeds: the codec refuses a name that is not fully
\* qualified (an empty name packs).
PackOK(msg) ==
    /\ \A i \in 1..Len(msg.question) :
          msg.question[i].name = <<>> \/ IsFqdn(msg.question[i].name)
    /\ \A i \in 1..Len(Records(msg)) :
          \A n \in RRNames(Records(msg)[i]) : n = <<>> \/ IsFqdn(n)

\* One WriteTo/WriteToUDP on connection c: it can succeed only on an open
\* socket; `ok` is whether the network takes the datagram.
Write(c, to, msg, ok) ==
    [conn |-> c, to |-> to, msg |-> msg,
     ok |-> ConnState(c) = "open" /\ ok[c]]

\* multicastResponse: the writes it makes; write errors are dropped.
multicastResponse(msg, ok) ==
    IF ~PackOK(msg) THEN <<>>
    ELSE (IF ipv4conn # "nil"
          THEN <<Write("ipv4conn", ipv4Addr, msg, ok)>> ELSE <<>>)
         \o
         (IF ipv6conn # "nil"
          THEN <<Write("ipv6conn", ipv6Addr, msg, ok)>> ELSE <<>>)

\* unicastResponse: one write to `from` on the socket of its family.
unicastResponse(resp, from, ok) ==
    IF ~PackOK(resp) THEN <<>>
    ELSE IF from.family = "udp4"
         THEN <<Write("ipv4conn", from, resp, ok)>>
         ELSE <<Write("ipv6conn", from, resp, ok)>>

\* The writes `ws`, labelled with the kind of message and, for a reply, the
\* index of the question it answers.
Sent(ws, kind, qi) ==
    [i \in 1..Len(ws) |->
        [kind |-> kind, qi |-> qi, conn |-> ws[i].conn, to |-> ws[i].to,
         msg |-> ws[i].msg, ok |-> ws[i].ok]]

\* The network of one step: it takes the datagrams written in the step, or it
\* drops them.
Oks == {[c \in Conns |-> b] : b \in BOOLEAN}

\* ------------------------------------------------------------------------
\* handleQuery
\* ------------------------------------------------------------------------

HandleQuestionOf(b, q, resp, e, t) ==
    IF b = PartBuild THEN handleQuestion(q, resp, e, t)
    ELSE handleQuestionOld(q, resp, e, t)

\* The loop over query.Question from question i on: the entry (its caches)
\* and the writes made.
RECURSIVE HandleQuestions(_, _, _, _, _, _, _)
HandleQuestions(b, query, from, i, e, t, ok) ==
    IF i > Len(query.question) THEN [entry |-> e, out |-> <<>>]
    ELSE LET q    == query.question[i]
             r    == HandleQuestionOf(b, q, SetReply(query), e, t)
             ws   == IF Len(r.resp.answer) > 0
                     THEN IF isUnicastQuestion(q)
                          THEN unicastResponse(r.resp, from, ok)
                          ELSE multicastResponse(r.resp, ok)
                     ELSE <<>>
             rest == HandleQuestions(b, query, from, i + 1, r.entry, t, ok)
         IN  [entry |-> rest.entry, out |-> Sent(ws, "reply", i) \o rest.out]

handleQueryAnswersAll(b, query, from, e, t, ok) ==
    HandleQuestions(b, query, from, 1, e, t, ok)

handleQuery(b, query, from, e, t, ok) ==
    IF Len(query.answer) > 0 THEN [entry |-> e, out |-> <<>>]
    ELSE IF Len(query.ns) > 0 THEN [entry |-> e, out |-> <<>>]
    ELSE HandleQuestions(b, query, from, 1, e, t, ok)

\* parsePacket: a packet that does not unpack is dropped.
parsePacket(b, packet, from, e, t, ok) ==
    IF packet.bad THEN [entry |-> e, out |-> <<>>]
    ELSE handleQuery(b, packet.msg, from, e, t, ok)

\* ------------------------------------------------------------------------
\* Inputs
\* ------------------------------------------------------------------------

MaxQuestions == 2     \* questions in one received query
MaxCallers   == 2     \* callers of Shutdown

defaultTTL == 3200

TTLs  == {defaultTTL, 10}
Texts == {<<"v=1">>, <<"v=2", "path=/">>}

\* NewServiceEntry and the fields Register fills in.
NewServiceEntry(instance, service, domain, host, port, text, a4, a6) ==
    [Instance |-> instance, Service |-> service, Domain |-> domain,
     serviceName |-> <<>>, serviceInstanceName |-> <<>>,
     serviceTypeName |-> <<>>,
     HostName |-> host, Port |-> port, Text |-> text, TTL |-> 0,
     AddrIPv4 |-> a4, AddrIPv6 |-> a6]

\* Register("w", "_h._t", "", 8080, ["v=1"], ...) on host "n" with one IPv4
\* and one global IPv6 address.
EntryLocal ==
    NewServiceEntry(<<"w">>, <<"_", "h", ".", "_", "t">>, localDomain,
                    <<"n", ".">> \o localDomain \o Dot, 8080, <<"v=1">>,
                    <<"10.0.0.5">>, <<"2001:db8::1">>)

\* Register("x", "_h._t.", "d", 631, ["v=1"], ...) on host "n" with two IPv4
\* addresses and no IPv6 address.
EntryDomain ==
    NewServiceEntry(<<"x">>, <<"_", "h", ".", "_", "t", ".">>, <<"d">>,
                    <<"n", ".", "d", ".">>, 631, <<"v=1">>,
                    <<"10.0.0.5", "10.0.0.6">>, <<>>)

Entries == {EntryLocal, EntryDomain}

OtherName == <<"o", ".", "d", ".">>

\* The names a question can ask for.
QNames(e) ==
    {ServiceName(e), ServiceInstanceName(e), e.HostName, ServiceTypeName(e),
     OtherName}

Questions(e) ==
    {[name |-> n, qtype |-> TypePTR, qclass |-> c] :
        n \in QNames(e), c \in {ClassINET, ClassINET + cache_flush}}

SeqsUpTo(S, n) == UNION {[1..k -> S] : k \in 0..n}

PureQueries(e) ==
    {[EmptyMsg EXCEPT !.question = qs] :
        qs \in SeqsUpTo(Questions(e), MaxQuestions)}

\* A record of another responder.
ForeignRR(e) ==
    RR(ServiceInstanceName(e), TypeTXT, ClassINET, 120, [txt |-> <<"z">>])

\* Messages with an Answer or an Authority section: responses, and probes
\* of other responders.
NonPureQueries(e) ==
    {[EmptyMsg EXCEPT !.question = qs, !.response = Len(a) > 0,
                      !.answer = a, !.ns = n] :
        qs \in SeqsUpTo(Questions(e), 1),
        a \in {<<>>, <<ForeignRR(e)>>},
        n \in {<<>>, <<ForeignRR(e)>>}}
      \ PureQueries(e)

BadPacket == [bad |-> TRUE]
NoPacket  == [bad |-> TRUE, none |-> TRUE]

\* Every packet of the input domain.
AllPackets(e) ==
    {BadPacket}
      \cup {[bad |-> FALSE, msg |-> m] :
               m \in PureQueries(e) \cup NonPureQueries(e)}

Ask(n, class) ==
    [bad |-> FALSE,
     msg |-> [EmptyMsg EXCEPT
                !.question = <<[name |-> n, qtype |-> TypePTR,
                                qclass |-> class]>>]]

\* The packets of the concurrent specification: one that does not unpack
\* and a browse query.
FewPackets(e) == {BadPacket, Ask(ServiceName(e), ClassINET)}

\* The sender of a packet read on connection c.
Peer(c) ==
    IF c = "ipv4conn" THEN [family |-> "udp4", ip |-> "192.0.2.10"]
    ELSE [family |-> "udp6", ip |-> "2001:db8::10"]

Callers == 1..MaxCallers

NoHist ==
    [set |-> 0, goodbye |-> 0, close4 |-> 0, close6 |-> 0, lost |-> FALSE,
     ttlSet |-> FALSE, probes |-> 0, announces |-> 0, probeLost |-> FALSE]

NoLookup == [nil |-> TRUE]

\* ------------------------------------------------------------------------
\* Init: the state when Register (RegisterProxy) returns a registration.
\* newServer has bound at least one socket; s.Service is set; mainloop and
\* probe have been started.
\* ------------------------------------------------------------------------

InitWith(entries, ttls) ==
    /\ build \in Builds
    /\ Service \in entries
    /\ ttl \in ttls
    /\ ipv4conn \in {"nil", "open"}
    /\ ipv6conn \in {"nil", "open"}
    /\ ipv4conn = "open" \/ ipv6conn = "open"
    /\ shuttingDown = FALSE
    /\ shutdownLock = 0
    /\ pcShutdown = [k \in Callers |-> "idle"]
    /\ pcRecv = [c \in Conns |-> IF ConnState(c) = "nil" THEN "none" ELSE "test"]
    /\ pkt = [c \in Conns |-> NoPacket]
    /\ pcProbe = "srv"
    /\ probeI = 0
    /\ probeMsg = EmptyMsg
    /\ out = <<>>
    /\ step = [op |-> "Register"]
    /\ hist = NoHist
    /\ lookup = NoLookup

Init == InitWith({EntryLocal}, {defaultTTL})

\* ------------------------------------------------------------------------
\* The receive loops
\* ------------------------------------------------------------------------

RecvTestIgnoresFlag(c) ==
    /\ pcRecv[c] = "test"
    /\ pcRecv' = [pcRecv EXCEPT ![c] = "read"]
    /\ out' = <<>>
    /\ step' = [op |-> "recv"]
    /\ UNCHANGED <<lookup, server, pcShutdown, pkt, pcProbe, probeI,
                   probeMsg, hist>>

\* for !s.shuttingDown
RecvTest(c) ==
    /\ pcRecv[c] = "test"
    /\ pcRecv' = [pcRecv EXCEPT ![c] = IF shuttingDown THEN "exit" ELSE "read"]
    /\ out' = <<>>
    /\ step' = [op |-> "recv"]
    /\ UNCHANGED <<lookup, server, pcShutdown, pkt, pcProbe, probeI, probeMsg, hist>>

\* c.ReadFrom(buf) returns an error: continue.  On a closed socket it
\* always does.
RecvError(c) ==
    /\ pcRecv[c] = "read"
    /\ pcRecv' = [pcRecv EXCEPT ![c] = "test"]
    /\ out' = <<>>
    /\ step' = [op |-> "recv"]
    /\ UNCHANGED <<lookup, server, pcShutdown, pkt, pcProbe, probeI, probeMsg, hist>>

\* c.ReadFrom(buf) returns a packet of P.
RecvRead(c, P) ==
    /\ pcRecv[c] = "read"
    /\ ConnState(c) = "open"
    /\ \E p \in P : pkt' = [pkt EXCEPT ![c] = p]
    /\ pcRecv' = [pcRecv EXCEPT ![c] = "parse"]
    /\ out' = <<>>
    /\ step' = [op |-> "recv"]
    /\ UNCHANGED <<lookup, server, pcShutdown, pcProbe, probeI, probeMsg, hist>>

\* The effect of s.parsePacket(p, from) for a packet read on c.
Parse(c, p) ==
    \E ok \in Oks :
        LET r == parsePacket(build, p, Peer(c), Service, ttl, ok)
        IN  /\ Service' = r.entry
            /\ out' = r.out
            /\ step' = [op |-> "parsePacket", conn |-> c, packet |-> p,
                        from |-> Peer(c)]

\* s.parsePacket(buf[:n], from), then back to the loop test.
RecvParse(c) ==
    /\ pcRecv[c] = "parse"
    /\ Parse(c, pkt[c])
    /\ pcRecv' = [pcRecv EXCEPT ![c] = "test"]
    /\ pkt' = [pkt EXCEPT ![c] = NoPacket]
    /\ UNCHANGED <<lookup, build, ttl, ipv4conn, ipv6conn, shuttingDown, shutdownLock,
                   pcShutdown, pcProbe, probeI, probeMsg, hist>>

\* ReadFrom returns a packet of P and parsePacket runs before any other
\* task does.
RecvServe(c, P) ==
    /\ pcRecv[c] = "read"
    /\ ConnState(c) = "open"
    /\ \E p \in P : Parse(c, p)
    /\ pcRecv' = [pcRecv EXCEPT ![c] = "test"]
    /\ UNCHANGED <<lookup, build, ttl, ipv4conn, ipv6conn, shuttingDown, shutdownLock,
                   pcShutdown, pkt, pcProbe, probeI, probeMsg, hist>>

\* ------------------------------------------------------------------------
\* SetText and TTL
\* ------------------------------------------------------------------------

announceTextNoFlush(e, t) ==
    [EmptyMsg EXCEPT
        !.response = TRUE,
        !.answer = <<RR(ServiceInstanceName(e), TypeTXT, ClassINET, t,
                        [txt |-> e.Text])>>]

\* announceText: the TXT-only response.
announceText(e, t) ==
    [EmptyMsg EXCEPT
        !.response = TRUE,
        !.answer = <<RR(ServiceInstanceName(e), TypeTXT,
                        ClassINET + cache_flush, t, [txt |-> e.Text])>>]

SetText(text) ==
    \E ok \in Oks :
        LET e == [Service EXCEPT !.Text = text]
        IN  /\ Service' = Cached(e, {"ServiceInstanceName"})
            /\ out' = Sent(multicastResponse(announceText(e, ttl), ok),
                           "text", 0)
            /\ step' = [op |-> "SetText", text |-> text]
            /\ UNCHANGED <<lookup, build, ttl, ipv4conn, ipv6conn, shuttingDown,
                           shutdownLock, pcShutdown, pcRecv, pkt, pcProbe,
                           probeI, probeMsg, hist>>

TTL(t) ==
    /\ ttl' = t
    /\ out' = <<>>
    /\ step' = [op |-> "TTL", ttl |-> t]
    /\ hist' = [hist EXCEPT !.ttlSet = TRUE]
    /\ UNCHANGED <<lookup, build, Service, ipv4conn, ipv6conn, shuttingDown,
                   shutdownLock, pcShutdown, pcRecv, pkt, pcProbe, probeI,
                   probeMsg>>

\* ------------------------------------------------------------------------
\* The probe/announce driver
\* ------------------------------------------------------------------------

multicastRepitions == 2
oldRepetitions     == 3

\* The bound of both loops of probe.
Repetitions(b) == IF b = PartBuild THEN multicastRepitions ELSE oldRepetitions

\* q.SetQuestion(ServiceInstanceName, PTR) and the SRV record, which reads
\* s.ttl.
ProbeSrv ==
    /\ pcProbe = "srv"
    /\ probeMsg' =
          [EmptyMsg EXCEPT
              !.question = <<[name |-> ServiceInstanceName(Service),
                              qtype |-> TypePTR, qclass |-> ClassINET]>>,
              !.ns = <<RR(ServiceInstanceName(Service), TypeSRV, ClassINET,
                          ttl, SrvData(Service))>>]
    /\ Service' = Cached(Service, {"ServiceInstanceName"})
    /\ pcProbe' = "txt"
    /\ out' = <<>>
    /\ step' = [op |-> "probe"]
    /\ UNCHANGED <<lookup, build, ttl, ipv4conn, ipv6conn, shuttingDown, shutdownLock,
                   pcShutdown, pcRecv, pkt, probeI, hist>>

\* The TXT record, which reads s.ttl and s.Service.Text; q.Ns = {srv, txt}.
ProbeTxt ==
    /\ pcProbe = "txt"
    /\ probeMsg' =
          [probeMsg EXCEPT
              !.ns = @ \o <<RR(ServiceInstanceName(Service), TypeTXT,
                               ClassINET, ttl, [txt |-> Service.Text])>>]
    /\ pcProbe' = "probe"
    /\ probeI' = 0
    /\ out' = <<>>
    /\ step' = [op |-> "probe"]
    /\ UNCHANGED <<lookup, server, pcShutdown, pcRecv, pkt, hist>>

\* A write of the latest call failed, or the message did not pack.
SendFailed(sent, msg) ==
    ~PackOK(msg) \/ \E i \in 1..Len(sent) : ~sent[i].ok

probeAfterSendStopsOnError(sent, msg, pc) ==
    IF SendFailed(sent, msg) THEN "done" ELSE pc

\* Where the driver is after a multicastResponse call of one of its loops:
\* an error is logged and the loop goes on.
probeAfterSend(sent, msg, pc) == pc

\* One pass of the first loop: send the probe, then sleep.
ProbeSend ==
    /\ pcProbe = "probe"
    /\ probeI < Repetitions(build)
    /\ \E ok \in Oks : out' = Sent(multicastResponse(probeMsg, ok), "probe", 0)
    /\ probeI' = probeI + 1
    /\ pcProbe' = probeAfterSend(out', probeMsg, pcProbe)
    /\ hist' = [hist EXCEPT
                   !.probes = @ + 1,
                   !.probeLost = @ \/ SendFailed(out', probeMsg)]
    /\ step' = [op |-> "probe"]
    /\ UNCHANGED <<lookup, server, pcShutdown, pcRecv, pkt, probeMsg>>

\* The first loop is over: compose the announcement from s.ttl.
ProbeCompose ==
    /\ pcProbe = "probe"
    /\ probeI >= Repetitions(build)
    /\ probeMsg' = Lookup(build, [EmptyMsg EXCEPT !.response = TRUE], Service,
                          ttl)
    /\ Service' = Cached(Service, {"ServiceName", "ServiceInstanceName",
                                   "ServiceTypeName"})
    /\ pcProbe' = "announce"
    /\ probeI' = 0
    /\ out' = <<>>
    /\ step' = [op |-> "probe"]
    /\ UNCHANGED <<lookup, build, ttl, ipv4conn, ipv6conn, shuttingDown, shutdownLock,
                   pcShutdown, pcRecv, pkt, hist>>

\* One pass of the second loop: send the announcement, then sleep.
AnnounceSend ==
    /\ pcProbe = "announce"
    /\ probeI < Repetitions(build)
    /\ \E ok \in Oks :
          out' = Sent(multicastResponse(probeMsg, ok), "announce", 0)
    /\ probeI' = probeI + 1
    /\ pcProbe' = probeAfterSend(out', probeMsg, pcProbe)
    /\ hist' = [hist EXCEPT
                   !.announces = @ + 1,
                   !.probeLost = @ \/ SendFailed(out', probeMsg)]
    /\ step' = [op |-> "probe"]
    /\ UNCHANGED <<lookup, server, pcShutdown, pcRecv, pkt, probeMsg>>

\* The second loop is over: probe returns.
ProbeDone ==
    /\ pcProbe = "announce"
    /\ probeI >= Repetitions(build)
    /\ pcProbe' = "done"
    /\ out' = <<>>
    /\ step' = [op |-> "probe"]
    /\ UNCHANGED <<lookup, server, pcShutdown, pcRecv, pkt, probeI, probeMsg, hist>>

\* ------------------------------------------------------------------------
\* Shutdown
\* ------------------------------------------------------------------------

unregisterEmpty(b, e) == [EmptyMsg EXCEPT !.response = TRUE]

\* unregister: the goodbye, composed with a ttl of 0.
unregister(b, e) == Lookup(b, [EmptyMsg EXCEPT !.response = TRUE], e, 0)

shutdownAfterUnregisterStopsOnError(sent) ==
    IF \E i \in 1..Len(sent) : ~sent[i].ok THEN "unlock" ELSE "close4"

\* What shutdown does after s.unregister(): its result is not looked at.
shutdownAfterUnregister(sent) == "close4"

shutdownFlagCheckMissing(flag) == FALSE

\* if s.shuttingDown { return nil }
shutdownFlagCheck(flag) == flag

\* s.shutdownLock.Lock(); the test of s.shuttingDown; s.shuttingDown = true.
\* A caller that finds the flag set unlocks and returns.
ShutdownEnter(k) ==
    /\ pcShutdown[k] \in {"idle", "done"}
    /\ shutdownLock = 0
    /\ IF shutdownFlagCheck(shuttingDown)
       THEN /\ pcShutdown' = [pcShutdown EXCEPT ![k] = "done"]
            /\ UNCHANGED <<shuttingDown, shutdownLock, hist>>
       ELSE /\ shuttingDown' = TRUE
            /\ shutdownLock' = k
            /\ hist' = [hist EXCEPT !.set = @ + 1]
            /\ pcShutdown' = [pcShutdown EXCEPT ![k] = "unregister"]
    /\ out' = <<>>
    /\ step' = [op |-> "Shutdown"]
    /\ UNCHANGED <<lookup, build, Service, ttl, ipv4conn, ipv6conn, pcRecv, pkt,
                   pcProbe, probeI, probeMsg>>

\* s.unregister()
ShutdownUnregister(k) ==
    /\ pcShutdown[k] = "unregister"
    /\ \E ok \in Oks :
          /\ out' = Sent(multicastResponse(unregister(build, Service), ok),
                         "goodbye", 0)
          /\ pcShutdown' =
                [pcShutdown EXCEPT ![k] = shutdownAfterUnregister(out')]
          /\ hist' = [hist EXCEPT
                         !.goodbye = @ + 1,
                         !.lost = \E i \in 1..Len(out') : ~out'[i].ok]
    /\ Service' = Cached(Service, {"ServiceName", "ServiceInstanceName",
                                   "ServiceTypeName"})
    /\ step' = [op |-> "Shutdown"]
    /\ UNCHANGED <<lookup, build, ttl, ipv4conn, ipv6conn, shuttingDown, shutdownLock,
                   pcRecv, pkt, pcProbe, probeI, probeMsg>>

\* if s.ipv4conn != nil { s.ipv4conn.Close() }
ShutdownClose4(k) ==
    /\ pcShutdown[k] = "close4"
    /\ IF ipv4conn # "nil"
       THEN /\ ipv4conn' = "closed"
            /\ hist' = [hist EXCEPT !.close4 = @ + 1]
       ELSE UNCHANGED <<ipv4conn, hist>>
    /\ pcShutdown' = [pcShutdown EXCEPT ![k] = "close6"]
    /\ out' = <<>>
    /\ step' = [op |-> "Shutdown"]
    /\ UNCHANGED <<lookup, build, Service, ttl, ipv6conn, shuttingDown, shutdownLock,
                   pcRecv, pkt, pcProbe, probeI, probeMsg>>

\* if s.ipv6conn != nil { s.ipv6conn.Close() }
ShutdownClose6(k) ==
    /\ pcShutdown[k] = "close6"
    /\ IF ipv6conn # "nil"
       THEN /\ ipv6conn' = "closed"
            /\ hist' = [hist EXCEPT !.close6 = @ + 1]
       ELSE UNCHANGED <<ipv6conn, hist>>
    /\ pcShutdown' = [pcShutdown EXCEPT ![k] = "unlock"]
    /\ out' = <<>>
    /\ step' = [op |-> "Shutdown"]
    /\ UNCHANGED <<lookup, build, Service, ttl, ipv4conn, shuttingDown, shutdownLock,
                   pcRecv, pkt, pcProbe, probeI, probeMsg>>

\* return nil, with the deferred s.shutdownLock.Unlock()
ShutdownReturn(k) ==
    /\ pcShutdown[k] = "unlock"
    /\ shutdownLock' = 0
    /\ pcShutdown' = [pcShutdown EXCEPT ![k] = "done"]
    /\ out' = <<>>
    /\ step' = [op |-> "Shutdown"]
    /\ UNCHANGED <<lookup, build, Service, ttl, ipv4conn, ipv6conn, shuttingDown,
                   pcRecv, pkt, pcProbe, probeI, probeMsg, hist>>

\* ------------------------------------------------------------------------
\* Specifications
\* ------------------------------------------------------------------------

\* All tasks of a registration, interleaved, with a few kinds of packets.
Next ==
    \/ \E c \in Conns : RecvTest(c)
    \/ \E c \in Conns : RecvError(c)
    \/ \E c \in Conns : RecvRead(c, FewPackets(Service))
    \/ \E c \in Conns : RecvParse(c)
    \/ SetText(<<"v=2", "path=/">>)
    \/ ProbeSrv
    \/ ProbeTxt
    \/ ProbeSend
    \/ ProbeCompose
    \/ AnnounceSend
    \/ ProbeDone
    \/ \E k \in Callers : ShutdownEnter(k)
    \/ \E k \in Callers : ShutdownUnregister(k)
    \/ \E k \in Callers : ShutdownClose4(k)
    \/ \E k \in Callers : ShutdownClose6(k)
    \/ \E k \in Callers : ShutdownReturn(k)

Spec == Init /\ [][Next]_vars

\* Every receive loop is blocked in ReadFrom and the writes of the latest
\* step have been taken off the wire.
Quiet ==
    /\ out = <<>>
    /\ \A c \in Conns : pcRecv[c] \in {"read", "none"}

\* The responder answering every packet of the input domain, one packet or
\* one API call at a time, before the driver and Shutdown have run.
InitQuery == InitWith(Entries, TTLs)

NextQuery ==
    \/ \E c \in Conns : RecvTest(c)
    \/ \E c \in Conns : RecvError(c)
    \/ Quiet /\ \E c \in Conns : RecvServe(c, AllPackets(Service))
    \/ Quiet /\ \E text \in Texts : SetText(text)
    \/ Quiet /\ \E t \in TTLs : TTL(t)

SpecQuery == InitQuery /\ [][NextQuery]_vars

\* ------------------------------------------------------------------------
\* Properties
\* ------------------------------------------------------------------------

\* Some call of Shutdown has returned.
ShutdownReturned == \E k \in Callers : pcShutdown[k] = "done"

\* The latest step was parsePacket on a packet that unpacked: handleQuery ran.
Handled == step.op = "parsePacket" /\ ~step.packet.bad

\* The writes of the latest step that answer question i of the query.
Replies(i) == {j \in 1..Len(out) : out[j].kind = "reply" /\ out[j].qi = i}

Multicast(w) ==
    \/ w.conn = "ipv4conn" /\ w.to = ipv4Addr
    \/ w.conn = "ipv6conn" /\ w.to = ipv6Addr

BoundConns == {c \in Conns : ConnState(c) # "nil"}

\* The writes js are one multicast packet: one write of the same message to
\* the group address on every socket the registration has.
OneMulticast(js) ==
    /\ \A j \in js : Multicast(out[j])
    /\ \A c \in BoundConns : Cardinality({j \in js : out[j].conn = c}) = 1
    /\ \A j \in js : out[j].conn \in BoundConns
    /\ \A j, k \in js : out[j].msg = out[k].msg

FlushSet(rr) == TopBit(rr.class)

\* C1: once Shutdown has returned, no step sends a packet, no step hands a
\* received packet to handleQuery, and both sockets are closed.
C1_AfterShutdown ==
    [][ShutdownReturned =>
          /\ \A j \in 1..Len(out') : ~out'[j].ok
          /\ ~(step' # step /\ Handled')
          /\ ipv4conn' # "open" /\ ipv6conn' # "open"]_vars

\* C2: over any number of calls of Shutdown, shuttingDown is set once, the
\* goodbye is sent once and each socket is closed at most once; a call that
\* finds the flag set changes nothing and sends nothing.
C2_ShutdownOnce ==
    /\ [](/\ hist.set <= 1 /\ hist.goodbye <= 1
          /\ hist.close4 <= 1 /\ hist.close6 <= 1
          /\ (ShutdownReturned => hist.set = 1 /\ hist.goodbye = 1))
    /\ [][\A k \in Callers :
            (/\ shuttingDown
             /\ pcShutdown[k] \in {"idle", "done"}
             /\ pcShutdown'[k] = "done"
             /\ \A j \in Callers \ {k} : pcShutdown'[j] = pcShutdown[j]
             /\ step'.op = "Shutdown")
            => /\ server' = server
               /\ hist' = hist
               /\ out' = <<>>]_vars

\* Two calls of Shutdown have returned, the second one without doing
\* anything.
C2_Witness ==
    /\ \A k \in Callers : pcShutdown[k] = "done"
    /\ hist.set = 1
    /\ hist.close4 + hist.close6 >= 1

\* C3: the goodbye is written on every socket while no socket is closed yet,
\* no socket is closed before the goodbye attempt, and when Shutdown has
\* returned the attempt and the closes are done, whether or not the goodbye
\* got out.
C3_GoodbyeBeforeClose ==
    /\ (ipv4conn = "closed" \/ ipv6conn = "closed") => hist.goodbye = 1
    /\ \A j \in 1..Len(out) :
          out[j].kind = "goodbye"
            => /\ ipv4conn # "closed" /\ ipv6conn # "closed"
               /\ OneMulticast(1..Len(out))
    /\ ShutdownReturned
          => /\ hist.goodbye = 1
             /\ ipv4conn # "open" /\ ipv6conn # "open"
             /\ hist.close4 + hist.close6 = Cardinality(BoundConns)

\* Shutdown has returned with both sockets closed after a goodbye that the
\* network dropped.
C3_Witness ==
    /\ ShutdownReturned
    /\ hist.lost
    /\ ipv4conn = "closed" /\ ipv6conn = "closed"

\* What a response is, read off its sections.
HasType(rrs, t) == \E i \in 1..Len(rrs) : rrs[i].rrtype = t

BrowsingAnswers(m) ==
    /\ Len(m.answer) = 1
    /\ m.answer[1].rrtype = TypePTR
    /\ m.answer[1].name = ServiceName(Service)
    /\ HasType(m.extra, TypeSRV)

LookupAnswers(m) ==
    /\ HasType(m.answer, TypeSRV)
    /\ HasType(m.answer, TypeTXT)

TypeEnumerationAnswer(m) ==
    /\ Len(m.answer) = 1
    /\ m.answer[1].rrtype = TypePTR
    /\ m.answer[1].name = ServiceTypeName(Service)
    /\ m.answer[1].rdata.ptr = ServiceName(Service)
    /\ m.extra = <<>>

PureQuery(m) == m.answer = <<>> /\ m.ns = <<>>

\* Question i of the handled query is answered, and by responses that
\* satisfy K.
Yields(i, K(_)) ==
    /\ Replies(i) # {}
    /\ \A j \in Replies(i) : K(out[j].msg)

\* C4: every question of a pure query is dispatched on its name: ServiceName
\* to browsing answers, ServiceInstanceName and Hostname to lookup answers,
\* ServiceTypeName to the type-enumeration answer, any other name to no
\* response.
C4_Dispatch ==
    (Handled /\ PureQuery(step.packet.msg)) =>
        \A i \in 1..Len(step.packet.msg.question) :
            LET n == step.packet.msg.question[i].name
            IN  /\ n = ServiceName(Service) => Yields(i, BrowsingAnswers)
                /\ n = ServiceInstanceName(Service) => Yields(i, LookupAnswers)
                /\ n = Service.HostName => Yields(i, LookupAnswers)
                /\ n = ServiceTypeName(Service)
                      => Yields(i, TypeEnumerationAnswer)
                /\ n \notin {ServiceName(Service), ServiceInstanceName(Service),
                             Service.HostName, ServiceTypeName(Service)}
                      => Replies(i) = {}

\* C4 with the Hostname case left to the build: what both builds do.
C4_DispatchBuilds ==
    (Handled /\ PureQuery(step.packet.msg)) =>
        \A i \in 1..Len(step.packet.msg.question) :
            LET n == step.packet.msg.question[i].name
            IN  /\ n = ServiceName(Service) => Yields(i, BrowsingAnswers)
                /\ n = ServiceInstanceName(Service) => Yields(i, LookupAnswers)
                /\ n = Service.HostName
                      => IF build = PartBuild THEN Yields(i, LookupAnswers)
                         ELSE Replies(i) = {}
                /\ n = ServiceTypeName(Service)
                      => Yields(i, TypeEnumerationAnswer)
                /\ n \notin {ServiceName(Service), ServiceInstanceName(Service),
                             Service.HostName, ServiceTypeName(Service)}
                      => Replies(i) = {}

\* C5: a question with the top bit of its QCLASS set is answered by one
\* unicast write to the sender and no multicast write; any other question is
\* answered by one multicast packet and no unicast write.
C5_UnicastBit ==
    (Handled /\ PureQuery(step.packet.msg)) =>
        \A i \in 1..Len(step.packet.msg.question) :
            LET q == step.packet.msg.question[i]
            IN  /\ q.name \in {ServiceName(Service),
                               ServiceInstanceName(Service),
                               ServiceTypeName(Service)}
                      => Replies(i) # {}
                /\ Replies(i) # {} =>
                      IF TopBit(q.qclass)
                      THEN /\ Cardinality(Replies(i)) = 1
                           /\ \A j \in Replies(i) :
                                 /\ out[j].to = step.from
                                 /\ ~Multicast(out[j])
                      ELSE /\ OneMulticast(Replies(i))
                           /\ \A j \in Replies(i) : out[j].to # step.from

\* A question with the unicast bit has been answered by a datagram to the
\* sender that the network took.
C5_Witness ==
    /\ Handled
    /\ \E i \in 1..Len(step.packet.msg.question) :
          /\ TopBit(step.packet.msg.question[i].qclass)
          /\ \E j \in Replies(i) : out[j].ok /\ out[j].to = step.from

\* C6: a received message with an Answer or an Authority section makes the
\* responder send nothing and change nothing of the registration.
C6_NotPureIgnored ==
    [][(step' # step /\ Handled' /\ ~PureQuery(step'.packet.msg))
          => out' = <<>> /\ server' = server]_vars

\* A message with an Authority section that asks for the service name has
\* been handled without a reply.
C6_Witness ==
    /\ Handled
    /\ step.packet.msg.ns # <<>>
    /\ Len(step.packet.msg.question) = 1
    /\ step.packet.msg.question[1].name = ServiceName(Service)
    /\ out = <<>>

\* The positions of rrs that hold a record of type t.
OfType(rrs, t) == {i \in 1..Len(rrs) : rrs[i].rrtype = t}

\* rrs holds one record of type t for every address of the list, and no
\* other record of type t.
OnePerAddress(rrs, t, addrs) ==
    /\ Cardinality(OfType(rrs, t)) = Len(addrs)
    /\ \A k \in 1..Len(addrs) :
          Cardinality({i \in OfType(rrs, t) :
                          /\ rrs[i].rdata.ip = addrs[k]
                          /\ rrs[i].name = Service.HostName}) = 1

\* The writes of the latest step that carry a lookup-answer response: the
\* announcements, the goodbye and the replies to a question for the
\* instance name or the host name.
LookupWrites ==
    {j \in 1..Len(out) :
        \/ out[j].kind \in {"announce", "goodbye"}
        \/ /\ out[j].kind = "reply"
           /\ step.packet.msg.question[out[j].qi].name
                 \in {ServiceInstanceName(Service), Service.HostName}}

LookupAnswerSet(m) ==
    /\ Cardinality(OfType(m.answer, TypeSRV)) = 1
    /\ Cardinality(OfType(m.answer, TypeTXT)) = 1
    /\ \E i \in OfType(m.answer, TypePTR) :
          /\ m.answer[i].name = ServiceName(Service)
          /\ m.answer[i].rdata.ptr = ServiceInstanceName(Service)
    /\ \E i \in OfType(m.answer, TypePTR) :
          /\ m.answer[i].name = ServiceTypeName(Service)
          /\ m.answer[i].rdata.ptr = ServiceName(Service)
    /\ OnePerAddress(m.answer, TypeA, Service.AddrIPv4)
    /\ OnePerAddress(m.answer, TypeAAAA, Service.AddrIPv6)
    /\ \A i \in 1..Len(Records(m)) :
          Records(m)[i].rrtype \in {TypeSRV, TypeTXT, TypeA, TypeAAAA}
            => FlushSet(Records(m)[i])
    /\ OfType(m.extra, TypeA) = {}
    /\ OfType(m.extra, TypeAAAA) = {}

\* C7: every lookup-answer response holds, in its Answer section, one SRV,
\* one TXT, the two PTRs and one A or AAAA record per registered address;
\* its SRV, TXT, A and AAAA records have the cache-flush bit; its Additional
\* section holds no address record.
C7_LookupAnswers == \A j \in LookupWrites : LookupAnswerSet(out[j].msg)

\* C7 for the responder of src/unnamed/part_000 alone.
C7_LookupAnswersPart == build = PartBuild => C7_LookupAnswers

\* m with every TTL set to t.
WithTTL(m, t) ==
    [m EXCEPT
        !.answer = [i \in 1..Len(m.answer) |-> [m.answer[i] EXCEPT !.ttl = t]],
        !.ns     = [i \in 1..Len(m.ns) |-> [m.ns[i] EXCEPT !.ttl = t]],
        !.extra  = [i \in 1..Len(m.extra) |-> [m.extra[i] EXCEPT !.ttl = t]]]

AllTTL(m, t) == \A i \in 1..Len(Records(m)) : Records(m)[i].ttl = t

\* C8: the goodbye is the lookup-answer response of the registration with
\* every TTL, those of the A and AAAA records too, set to 0; any other
\* lookup-answer response carries the configured TTL on every record.
C8_GoodbyeTTL ==
    \A j \in LookupWrites :
        IF out[j].kind = "goodbye"
        THEN /\ AllTTL(out[j].msg, 0)
             /\ out[j].msg =
                   WithTTL(Lookup(build, [EmptyMsg EXCEPT !.response = TRUE],
                                  Service, ttl), 0)
        ELSE AllTTL(out[j].msg, ttl)

\* C8 for the responder of src/unnamed/part_000 alone.
C8_GoodbyeTTLPart == build = PartBuild => C8_GoodbyeTTL

\* C9: a browsing-answer response has one Answer record, the PTR from
\* ServiceName to ServiceInstanceName with the configured TTL; its Additional
\* section holds the SRV (0, 0, port, hostname), the TXT and one A or AAAA
\* per registered address, and nothing else; no record has the cache-flush
\* bit.
C9_BrowsingAnswers ==
    (Handled /\ PureQuery(step.packet.msg)) =>
        \A i \in 1..Len(step.packet.msg.question) :
            step.packet.msg.question[i].name = ServiceName(Service) =>
                /\ Replies(i) # {}
                /\ \A j \in Replies(i) :
                      LET m == out[j].msg
                      IN  /\ m.answer =
                                <<[name |-> ServiceName(Service),
                                   rrtype |-> TypePTR, class |-> ClassINET,
                                   ttl |-> ttl,
                                   rdata |->
                                     [ptr |-> ServiceInstanceName(Service)]]>>
                          /\ m.ns = <<>>
                          /\ Len(m.extra) = 2 + Len(Service.AddrIPv4)
                                              + Len(Service.AddrIPv6)
                          /\ \E k \in OfType(m.extra, TypeSRV) :
                                /\ m.extra[k].name = ServiceInstanceName(Service)
                                /\ m.extra[k].rdata =
                                      [priority |-> 0, weight |-> 0,
                                       port |-> Service.Port,
                                       target |-> Service.HostName]
                          /\ \E k \in OfType(m.extra, TypeTXT) :
                                /\ m.extra[k].name = ServiceInstanceName(Service)
                                /\ m.extra[k].rdata.txt = Service.Text
                          /\ OnePerAddress(m.extra, TypeA, Service.AddrIPv4)
                          /\ OnePerAddress(m.extra, TypeAAAA, Service.AddrIPv6)
                          /\ \A k \in 1..Len(Records(m)) :
                                ~FlushSet(Records(m)[k])

\* A browse query has been answered, by a registration with two IPv4
\* addresses, after its TTL and text were changed.
C9_Witness ==
    /\ Handled
    /\ Len(Service.AddrIPv4) = 2
    /\ Service.Text # <<"v=1">>
    /\ \E i \in 1..Len(step.packet.msg.question) :
          /\ step.packet.msg.question[i].name = ServiceName(Service)
          /\ \E j \in Replies(i) : out[j].ok

\* C10: SetText(text) stores text as the TEXT list and sends one multicast
\* packet: a response with one record, a TXT record in the Answer section,
\* owned by ServiceInstanceName, with the cache-flush bit, the configured TTL
\* and text as its body.
C10_SetText ==
    step.op = "SetText" =>
        /\ Service.Text = step.text
        /\ out # <<>>
        /\ OneMulticast(1..Len(out))
        /\ \A j \in 1..Len(out) :
              LET m == out[j].msg
              IN  /\ out[j].kind = "text"
                  /\ m.response
                  /\ Len(Records(m)) = 1
                  /\ Len(m.answer) = 1
                  /\ m.answer[1].rrtype = TypeTXT
                  /\ m.answer[1].name = ServiceInstanceName(Service)
                  /\ FlushSet(m.answer[1])
                  /\ m.answer[1].ttl = ttl
                  /\ m.answer[1].rdata.txt = step.text

\* SetText has replaced the text of the registration, after its TTL was
\* changed, and the announcement got out.
C10_Witness ==
    /\ step.op = "SetText"
    /\ step.text = <<"v=2", "path=/">>
    /\ ttl # defaultTTL
    /\ out # <<>>
    /\ \A j \in 1..Len(out) : out[j].ok

\* ------------------------------------------------------------------------
\* Register and RegisterProxy: their arguments and the machine they run on
\* ------------------------------------------------------------------------

MaxIfaces == 1     \* interfaces in the list a caller passes

NoService == [nil |-> TRUE]

Seq_w    == <<"w">>
Seq_h_t  == <<"_", "h", ".", "_", "t">>
Seq_n    == <<"n">>
NLocal   == <<"n", ".">> \o localDomain
MLocal   == <<"m">> \o localDomain

Instances == {<<>>, Seq_w}
Services  == {<<>>, Seq_h_t}
Domains   == {<<>>, localDomain, <<"d", ".">>}
Ports     == {0, 8080}
CallTTLs  == {0, 10}

\* Host names: of the OS (os.Hostname) or of the caller (RegisterProxy).
\* MLocal has the domain as a suffix of its only label.
HostNames == {Seq_n, NLocal, NLocal \o Dot, MLocal, <<"n", ".", "d">>}

\* The interfaces of the machine, in the order of net.Interfaces().
OSIfaces == <<"lo", "eth0", "eth1", "docker0">>

\* Interface.Addrs()
AddrsOf(ifi) ==
    CASE ifi = "lo"      -> <<"127.0.0.1", "::1">>
      [] ifi = "eth0"    -> <<"10.0.0.5", "fe80::5", "2001:db8::1">>
      [] ifi = "eth1"    -> <<"10.0.1.6">>
      [] ifi = "docker0" -> <<"172.17.0.1">>

\* net.IP.To4() != nil
To4(ip) == ip \in {"127.0.0.1", "10.0.0.5", "10.0.1.6", "172.17.0.1"}

IsLoopback(ip) == ip \in {"127.0.0.1", "::1"}

IsLinkLocalUnicast(ip) == ip = "fe80::5"

IsGlobalUnicast(ip) == ~IsLoopback(ip) /\ ~IsLinkLocalUnicast(ip)

\* net.ParseIP(ip) != nil
ParseIPOK(ip) ==
    ip \in {"127.0.0.1", "10.0.0.5", "10.0.1.6", "172.17.0.1", "::1",
            "fe80::5", "2001:db8::1"}

\* strings.HasPrefix(intf.Name, "docker")
IsDocker(ifi) == ifi = "docker0"

\* The interface lists a caller passes: none, or interfaces of the machine.
IfaceLists ==
    {l \in SeqsUpTo({"eth0", "eth1"}, MaxIfaces) :
        \A i, j \in 1..Len(l) : i # j => l[i] # l[j]}

IPLists ==
    {<<>>, <<"10.0.0.5">>, <<"2001:db8::1">>, <<"10.0.0.5", "2001:db8::1">>,
     <<"bogus">>}

Families == {"udp4", "udp6"}

\* What the machine does during one call: the result of os.Hostname(), the
\* interfaces whose Addrs() fails, whether net.InterfaceAddrs() and
\* net.Interfaces() fail, the families whose wildcard socket binds, and per
\* family the interfaces on which JoinGroup succeeds.
Envs ==
    [hostname   : HostNames \cup {<<>>},
     hostErr    : BOOLEAN,
     addrsErr   : {{}, {"eth1"}},
     osAddrsErr : BOOLEAN,
     bind       : SUBSET Families,
     join       : [Families -> {{}, {"eth0", "eth1"}}]]

\* Environments told apart only by what the call can observe: a failing
\* os.Hostname() has no name, and nothing is joined on an unbound socket.
Env ==
    {v \in Envs :
        /\ v.hostErr <=> v.hostname = <<>>
        /\ \A f \in Families : f \notin v.bind => v.join[f] = {}}

OK == "nil"

\* ------------------------------------------------------------------------
\* Register and RegisterProxy
\* ------------------------------------------------------------------------

MissingFieldNoPort(entry, proxy) ==
    IF entry.Instance = <<>> THEN "Missing service instance name"
    ELSE IF entry.Service = <<>> THEN "Missing service name"
    ELSE IF proxy /\ entry.HostName = <<>> THEN "Missing host name"
    ELSE OK

\* The checks of the arguments, in the order of the code; RegisterProxy
\* also checks the host name.
MissingField(entry, proxy) ==
    IF entry.Instance = <<>> THEN "Missing service instance name"
    ELSE IF entry.Service = <<>> THEN "Missing service name"
    ELSE IF proxy /\ entry.HostName = <<>> THEN "Missing host name"
    ELSE IF entry.Port = 0 THEN "Missing port"
    ELSE OK

\* if entry.Domain == "" { entry.Domain = localDomain }
WithDomain(entry) ==
    IF entry.Domain = <<>> THEN [entry EXCEPT !.Domain = localDomain]
    ELSE entry

\* entry.HostName = fmt.Sprintf("%s.", trimDot(entry.HostName))
HostFqdn(h) == trimDot(h) \o Dot

\* if !strings.HasSuffix(trimDot(entry.HostName), entry.Domain) { ... }
WithDomainSuffix(h, domain) ==
    IF ~HasSuffix(trimDot(h), domain)
    THEN trimDot(h) \o Dot \o trimDot(domain) \o Dot
    ELSE h

RECURSIVE Concat(_)
Concat(ss) == IF ss = <<>> THEN <<>> ELSE Head(ss) \o Concat(Tail(ss))

\* The loop over ifaces of Register (part_000): an interface whose Addrs()
\* fails is skipped.
ListedAddrs(ifaces, env) ==
    Concat([i \in 1..Len(ifaces) |->
               IF ifaces[i] \in env.addrsErr THEN <<>>
               ELSE AddrsOf(ifaces[i])])

\* net.InterfaceAddrs()
InterfaceAddrs == Concat([i \in 1..Len(OSIfaces) |-> AddrsOf(OSIfaces[i])])

\* The addresses Register (part_000) looks at: [err, addrs].
Iaddrs(ifaces, env) ==
    LET listed == ListedAddrs(ifaces, env)
    IN  IF Len(listed) = 0
        THEN IF env.osAddrsErr
             THEN [err |-> "InterfaceAddrs", addrs |-> <<>>]
             ELSE [err |-> OK, addrs |-> InterfaceAddrs]
        ELSE [err |-> OK, addrs |-> listed]

\* The loop over iaddrs of Register (part_000).
WithAddrs(entry, iaddrs) ==
    [entry EXCEPT
        !.AddrIPv4 = SelectSeq(iaddrs,
                         LAMBDA a : ~IsLoopback(a) /\ To4(a)),
        !.AddrIPv6 = SelectSeq(iaddrs,
                         LAMBDA a : ~IsLoopback(a) /\ ~To4(a)
                                      /\ IsGlobalUnicast(a))]

\* The loops over net.Interfaces() of Register (service.go): [err, addrs].
\* An interface named docker... is skipped; a failing Addrs() is an error.
IaddrsOld(env) ==
    LET used == SelectSeq(OSIfaces, LAMBDA i : ~IsDocker(i))
    IN  IF env.osAddrsErr THEN [err |-> "Interfaces", addrs |-> <<>>]
        ELSE IF \E i \in 1..Len(used) : used[i] \in env.addrsErr
        THEN [err |-> "Addrs", addrs |-> <<>>]
        ELSE [err |-> OK,
              addrs |-> Concat([i \in 1..Len(used) |-> AddrsOf(used[i])])]

WithAddrsOld(entry, iaddrs) ==
    [entry EXCEPT
        !.AddrIPv4 = SelectSeq(iaddrs,
                         LAMBDA a : ~IsLoopback(a) /\ ~IsLinkLocalUnicast(a)
                                      /\ To4(a)),
        !.AddrIPv6 = SelectSeq(iaddrs,
                         LAMBDA a : ~IsLoopback(a) /\ ~IsLinkLocalUnicast(a)
                                      /\ ~To4(a))]

\* The loop over ips of RegisterProxy: [err, entry].
WithIPs(entry, ips) ==
    IF \E i \in 1..Len(ips) : ~ParseIPOK(ips[i])
    THEN [err |-> "Failed to parse given IP", entry |-> entry]
    ELSE [err |-> OK,
          entry |-> [entry EXCEPT
                        !.AddrIPv4 = SelectSeq(ips, To4),
                        !.AddrIPv6 = SelectSeq(ips, LAMBDA a : ~To4(a))]]

\* ------------------------------------------------------------------------
\* newServer
\* ------------------------------------------------------------------------

Range(f) == {f[i] : i \in DOMAIN f}

\* joinUdp4Multicast / joinUdp6Multicast: bind the wildcard socket of the
\* family, join the group on the listed interfaces (on every interface of
\* the machine when the list is empty); an error when the bind fails or no
\* interface could be joined.
joinUdpMulticast(f, ifaces, env) ==
    LET targets == IF Len(ifaces) = 0 THEN Range(OSIfaces) ELSE Range(ifaces)
        ok      == f \in env.bind /\ targets \cap env.join[f] # {}
    IN  [conn |-> IF ok THEN "open" ELSE "nil",
         err  |-> IF ok THEN OK
                  ELSE IF f \in env.bind THEN "failed to join any interface"
                  ELSE "failed to bind",
         bound |-> IF f \in env.bind THEN {f} ELSE {}]

NoServer(err, bound) ==
    [err |-> err, ipv4conn |-> "nil", ipv6conn |-> "nil", bound |-> bound]

\* newServer of src/unnamed/part_000: an error of either family is returned.
newServer(ifaces, env) ==
    LET j4 == joinUdpMulticast("udp4", ifaces, env)
        j6 == joinUdpMulticast("udp6", ifaces, env)
    IN  IF j4.err # OK THEN NoServer(j4.err, j4.bound)
        ELSE IF j6.err # OK THEN NoServer(j6.err, j4.bound \cup j6.bound)
        ELSE [err |-> OK, ipv4conn |-> j4.conn, ipv6conn |-> j6.conn,
              bound |-> j4.bound \cup j6.bound]

\* JoinGroup(iface, group) of the family's packet connection: it fails on a
\* socket that was not bound.
JoinGroup(f, ifi, env) == f \in env.bind /\ ifi \in env.join[f]

\* newServer of src/service.go; iface is the first interface of the list,
\* nil when the list is empty.
newServerOld(ifaces, env) ==
    LET conn(f) == IF f \in env.bind THEN "open" ELSE "nil"
        all     == Range(OSIfaces)
        errs(f) == Cardinality({i \in all : ~JoinGroup(f, i, env)})
    IN  IF env.bind = {}
        THEN NoServer("Failed to bind to any udp port!", {})
        ELSE IF Len(ifaces) > 0
        THEN IF ~JoinGroup("udp4", ifaces[1], env)
             THEN NoServer("JoinGroup udp4", env.bind)
             ELSE IF ~JoinGroup("udp6", ifaces[1], env)
             THEN NoServer("JoinGroup udp6", env.bind)
             ELSE [err |-> OK, ipv4conn |-> conn("udp4"),
                   ipv6conn |-> conn("udp6"), bound |-> env.bind]
        ELSE IF /\ Cardinality(all) = errs("udp4")
                /\ Cardinality(all) = errs("udp6")
        THEN NoServer("Failed to join multicast group on all interfaces!",
                      env.bind)
        ELSE [err |-> OK, ipv4conn |-> conn("udp4"),
              ipv6conn |-> conn("udp6"), bound |-> env.bind]

NewServer(b, ifaces, env) ==
    IF b = PartBuild THEN newServer(ifaces, env) ELSE newServerOld(ifaces, env)

\* if ttl != 0 { s.ttl = ttl }
ServerTTL(t) == IF t # 0 THEN t ELSE defaultTTL

\* The result of a call that returns an error before newServer.
Failed(err, entry) ==
    [err |-> err, entry |-> entry, ttl |-> 0, ipv4conn |-> "nil",
     ipv6conn |-> "nil", bound |-> {}, constructed |-> FALSE]

\* The last part of Register and RegisterProxy: newServer, s.ttl, s.Service.
Serve(b, entry, ifaces, t, env) ==
    LET s == NewServer(b, ifaces, env)
    IN  [err |-> s.err, entry |-> entry,
         ttl |-> IF s.err = OK THEN ServerTTL(t) ELSE 0,
         ipv4conn |-> s.ipv4conn, ipv6conn |-> s.ipv6conn,
         bound |-> s.bound, constructed |-> TRUE]

\* The host name of Register: os.Hostname(), then the two rewritings.
RegisterHostName(entry, env) ==
    WithDomainSuffix(HostFqdn(env.hostname), entry.Domain)

\* Register
Register(b, instance, service, domain, port, text, ifaces, t, env) ==
    LET e0  == NewServiceEntry(instance, service, domain, <<>>, port, text,
                               <<>>, <<>>)
        e1  == WithDomain(e0)
        e2  == [e1 EXCEPT !.HostName = RegisterHostName(e1, env)]
        ia  == IF b = PartBuild THEN Iaddrs(ifaces, env) ELSE IaddrsOld(env)
        e3  == IF b = PartBuild THEN WithAddrs(e2, ia.addrs)
               ELSE WithAddrsOld(e2, ia.addrs)
    IN  IF MissingField(e0, FALSE) # OK
        THEN Failed(MissingField(e0, FALSE), e0)
        ELSE IF env.hostErr THEN Failed("Could not determine host", e1)
        ELSE IF ia.err # OK THEN Failed(ia.err, e2)
        ELSE IF e3.AddrIPv4 = <<>> /\ e3.AddrIPv6 = <<>>
        THEN Failed("Could not determine host IP addresses", e3)
        ELSE Serve(b, e3, ifaces, t, env)

\* RegisterProxy
RegisterProxy(b, inst, svc, dom, port, host, ips, text, ifaces, t, env) ==
    LET e0  == NewServiceEntry(inst, svc, dom, host, port, text, <<>>, <<>>)
        e1  == WithDomain(e0)
        e2  == [e1 EXCEPT !.HostName = WithDomainSuffix(@, e1.Domain)]
        e3  == WithIPs(e2, ips)
    IN  IF MissingField(e0, TRUE) # OK
        THEN Failed(MissingField(e0, TRUE), e0)
        ELSE IF e3.err # OK THEN Failed(e3.err, e2)
        ELSE Serve(b, e3.entry, ifaces, t, env)

\* ------------------------------------------------------------------------
\* A process that calls Register or RegisterProxy once
\* ------------------------------------------------------------------------

\* Before the call: no server, no socket, no task.
InitRegister ==
    /\ build \in Builds
    /\ Service = NoService
    /\ ttl = 0
    /\ ipv4conn = "nil"
    /\ ipv6conn = "nil"
    /\ shuttingDown = FALSE
    /\ shutdownLock = 0
    /\ pcShutdown = [k \in Callers |-> "idle"]
    /\ pcRecv = [c \in Conns |-> "none"]
    /\ pkt = [c \in Conns |-> NoPacket]
    /\ pcProbe = "none"
    /\ probeI = 0
    /\ probeMsg = EmptyMsg
    /\ out = <<>>
    /\ step = [op |-> "none"]
    /\ hist = NoHist
    /\ lookup = NoLookup

\* The state a call leaves: on success s.Service and s.ttl are set and
\* mainloop and probe are started; on an error nothing is.
Returned(op, args, env, r) ==
    /\ step' = [op |-> op, args |-> args, env |-> env, err |-> r.err,
                constructed |-> r.constructed, bound |-> r.bound]
    /\ IF r.err = OK
       THEN /\ Service' = r.entry
            /\ ttl' = r.ttl
            /\ ipv4conn' = r.ipv4conn
            /\ ipv6conn' = r.ipv6conn
            /\ pcRecv' = [c \in Conns |->
                            IF (IF c = "ipv4conn" THEN r.ipv4conn
                                ELSE r.ipv6conn) = "nil"
                            THEN "none" ELSE "test"]
            /\ pcProbe' = "srv"
       ELSE UNCHANGED <<Service, ttl, ipv4conn, ipv6conn, pcRecv, pcProbe>>
    /\ UNCHANGED <<lookup, build, shuttingDown, shutdownLock, pcShutdown,
                   pkt, probeI, probeMsg, out, hist>>

RegisterCall ==
    /\ step.op = "none"
    /\ \E instance \in Instances, service \in Services, domain \in Domains,
          port \in Ports, ifaces \in IfaceLists, t \in CallTTLs, env \in Env :
          Returned("Register",
                   [instance |-> instance, service |-> service,
                    domain |-> domain, port |-> port, ifaces |-> ifaces,
                    ttl |-> t],
                   env,
                   Register(build, instance, service, domain, port,
                            <<"v=1">>, ifaces, t, env))

\* The machine as far as RegisterProxy looks at it: the sockets.
ProxyEnv ==
    {v \in Env : v.hostname = Seq_n /\ v.addrsErr = {} /\ ~v.osAddrsErr}

RegisterProxyCall ==
    /\ step.op = "none"
    /\ \E instance \in Instances, service \in Services, domain \in Domains,
          port \in Ports, host \in HostNames \cup {<<>>}, ips \in IPLists,
          ifaces \in IfaceLists, t \in CallTTLs, env \in ProxyEnv :
          Returned("RegisterProxy",
                   [instance |-> instance, service |-> service,
                    domain |-> domain, port |-> port, host |-> host,
                    ips |-> ips, ifaces |-> ifaces, ttl |-> t],
                   env,
                   RegisterProxy(build, instance, service, domain, port,
                                 host, ips, <<"v=1">>, ifaces, t, env))

NextRegister ==
    \/ RegisterCall
    \/ RegisterProxyCall

SpecRegister == InitRegister /\ [][NextRegister]_vars

\* ------------------------------------------------------------------------
\* Properties of Register and RegisterProxy
\* ------------------------------------------------------------------------

Called == step.op \in {"Register", "RegisterProxy"}

Succeeded == Called /\ step.err = OK

MissingFieldErrors ==
    {"Missing service instance name", "Missing service name",
     "Missing port", "Missing host name"}

\* Nothing of a registration exists: no server, no socket was bound, no
\* receive loop and no driver runs.
NothingCreated ==
    /\ Service = NoService
    /\ ipv4conn = "nil" /\ ipv6conn = "nil"
    /\ step.bound = {} /\ ~step.constructed
    /\ \A c \in Conns : pcRecv[c] = "none"
    /\ pcProbe = "none"

\* C11: a call with an empty instance, an empty service or port 0 returns
\* an error and creates nothing (no server, no bound socket, no receive
\* loop, no driver); an empty domain is no error of its own and a
\* successful call has replaced it by "local".
C11_MissingField ==
    Called =>
        /\ (step.args.instance = <<>> \/ step.args.service = <<>>
              \/ step.args.port = 0)
              => step.err \in MissingFieldErrors /\ NothingCreated
        /\ (/\ step.args.domain = <<>>
            /\ step.args.instance # <<>> /\ step.args.service # <<>>
            /\ step.args.port # 0
            /\ step.op = "RegisterProxy" => step.args.host # <<>>)
              => step.err \notin MissingFieldErrors
        /\ (step.args.domain = <<>> /\ step.err = OK)
              => Service.Domain = localDomain

\* C11 witness: Register with instance and service but port 0 has returned
\* its error.
C11_Witness ==
    /\ step.op = "Register"
    /\ step.args.instance # <<>> /\ step.args.service # <<>>
    /\ step.args.port = 0
    /\ step.err = "Missing port"

\* C12: the entry of every registration that was returned has an instance,
\* a service, a port, a host name and at least one address.
C12_EntryComplete ==
    Succeeded =>
        /\ Service.Instance # <<>>
        /\ Service.Service # <<>>
        /\ Service.Port # 0
        /\ Service.HostName # <<>>
        /\ Service.AddrIPv4 # <<>> \/ Service.AddrIPv6 # <<>>

\* C13: the host name of every registration that was returned ends with
\* ".<domain>.".
C13_HostNameSuffix ==
    Succeeded =>
        HasSuffix(Service.HostName, Dot \o trimDot(Service.Domain) \o Dot)

\* The interfaces on which the call joins the groups.
JoinTargets ==
    IF Len(step.args.ifaces) = 0 THEN Range(OSIfaces)
    ELSE Range(step.args.ifaces)

\* The family binds and joins the group on at least one interface.
FamilyUp(f) == f \in step.env.bind /\ JoinTargets \cap step.env.join[f] # {}

\* C18: a call that reaches the construction of the server succeeds exactly
\* when at least one family binds and joins on at least one interface.
C18_Construction ==
    (Called /\ step.constructed) =>
        (step.err = OK <=> \E f \in Families : FamilyUp(f))

\* C19: with a non-empty interface list, every address of the registration
\* is an address of a listed interface.
C19_ListedAddresses ==
    (Succeeded /\ step.op = "Register" /\ Len(step.args.ifaces) > 0) =>
        \A a \in Range(Service.AddrIPv4) \cup Range(Service.AddrIPv6) :
            \E i \in Range(step.args.ifaces) : a \in Range(AddrsOf(i))

\* ------------------------------------------------------------------------
\* The TTL setter beside the driver, the receive loops and SetText
\* ------------------------------------------------------------------------

\* The driver runs step by step; a receive loop serves one packet per step;
\* TTL and SetText are called at any moment, any number of times.
NextTTL ==
    \/ \E t \in TTLs : TTL(t)
    \/ ProbeSrv
    \/ ProbeTxt
    \/ ProbeSend
    \/ ProbeCompose
    \/ AnnounceSend
    \/ ProbeDone
    \/ \E c \in Conns : RecvTest(c)
    \/ \E c \in Conns : RecvServe(c, FewPackets(Service))
    \/ SetText(<<"v=2", "path=/">>)

SpecTTL == Init /\ [][NextTTL]_vars

\* C14: once the TTL setter has been called, every record of every packet
\* sent (probe, announcement, query reply, TXT announcement; the goodbye
\* excepted) carries the value of the latest call.
C14_TTLAfterSet ==
    hist.ttlSet =>
        \A j \in 1..Len(out) :
            out[j].kind # "goodbye" => AllTTL(out[j].msg, ttl)

\* ------------------------------------------------------------------------
\* The derived names of a ServiceRecord, called again and again
\* ------------------------------------------------------------------------

MaxCalls == 2      \* calls of one getter on one record

Getters == {"ServiceName", "ServiceInstanceName", "ServiceTypeName"}

\* Records as a caller can construct them: labels with and without dots at
\* their edges, an empty instance (browsing), an empty domain.
NameInstances == {<<>>, Seq_w, Seq_w \o Dot}
NameServices  == {Seq_h_t, Seq_h_t \o Dot, Dot \o Seq_h_t}
NameDomains   == {<<>>, localDomain, <<"d", ".">>, <<".", "d">>,
                  <<"d", ".", ".">>}

NameRecords ==
    {NewServiceEntry(i, s, d, <<>>, 0, <<>>, <<>>, <<>>) :
        i \in NameInstances, s \in NameServices, d \in NameDomains}

NoCalls == [first |-> [g \in Getters |-> <<>>], calls |-> [g \in Getters |-> 0]]

InitNames ==
    /\ build \in Builds
    /\ Service \in NameRecords
    /\ ttl = 0
    /\ ipv4conn = "nil"
    /\ ipv6conn = "nil"
    /\ shuttingDown = FALSE
    /\ shutdownLock = 0
    /\ pcShutdown = [k \in Callers |-> "idle"]
    /\ pcRecv = [c \in Conns |-> "none"]
    /\ pkt = [c \in Conns |-> NoPacket]
    /\ pcProbe = "none"
    /\ probeI = 0
    /\ probeMsg = EmptyMsg
    /\ out = <<>>
    /\ step = [op |-> "none"]
    /\ hist = NoCalls
    /\ lookup = NoLookup

\* One call of getter g: it returns ret; its cache is filled.
GetterCall(g, ret) ==
    /\ hist.calls[g] < MaxCalls
    /\ step' = [op |-> g, ret |-> ret]
    /\ Service' = Cached(Service, {g})
    /\ hist' = [hist EXCEPT !.calls[g] = @ + 1,
                            !.first[g] = IF hist.calls[g] = 0 THEN ret ELSE @]
    /\ UNCHANGED <<lookup, build, ttl, ipv4conn, ipv6conn, shuttingDown,
                   shutdownLock, pcShutdown, pcRecv, pkt, pcProbe, probeI,
                   probeMsg, out>>

CallServiceName         == GetterCall("ServiceName", ServiceName(Service))
CallServiceInstanceName ==
    GetterCall("ServiceInstanceName", ServiceInstanceName(Service))
CallServiceTypeName     == GetterCall("ServiceTypeName", ServiceTypeName(Service))

NextNames ==
    \/ CallServiceName
    \/ CallServiceInstanceName
    \/ CallServiceTypeName

SpecNames == InitNames /\ [][NextNames]_vars

\* A label without the dots at its edges.
RECURSIVE Label(_)
Label(s) ==
    IF Len(s) > 0 /\ s[1] = "." THEN Label(Tail(s))
    ELSE IF Len(s) > 0 /\ s[Len(s)] = "." THEN Label(SubSeq(s, 1, Len(s) - 1))
    ELSE s

\* A field of a well-formed registration: not empty, and at most one dot
\* before and one dot after its label.
WellFormedField(s) ==
    /\ Label(s) # <<>>
    /\ s \in {Label(s), Dot \o Label(s), Label(s) \o Dot,
              Dot \o Label(s) \o Dot}

WellFormed(e) ==
    /\ WellFormedField(e.Instance)
    /\ WellFormedField(e.Service)
    /\ WellFormedField(e.Domain)

EndsWithOneDot(s) ==
    /\ Len(s) > 0 /\ s[Len(s)] = "."
    /\ Len(s) > 1 => s[Len(s) - 1] # "."

\* C15: on the record of a well-formed registration ServiceName() ends
\* with exactly one ".", ServiceInstanceName() ends with ServiceName(),
\* ServiceTypeName() is "_services._dns-sd._udp.<domain>.", and every call
\* of a getter returns what its first call returned.
C15_DerivedNames ==
    (WellFormed(Service) /\ step.op \in Getters) =>
        /\ step.ret = hist.first[step.op]
        /\ step.op = "ServiceName" => EndsWithOneDot(step.ret)
        /\ step.op = "ServiceInstanceName" =>
              /\ HasSuffix(step.ret, ServiceName(Service))
              /\ Len(step.ret) > Len(ServiceName(Service))
        /\ step.op = "ServiceTypeName" =>
              step.ret = ServicesPrefix \o Label(Service.Domain) \o Dot

\* C15 witness: the second call of ServiceName() on a well-formed record
\* whose domain was given with a trailing dot.
C15_Witness ==
    /\ WellFormed(Service)
    /\ Service.Domain = <<"d", ".">>
    /\ step.op = "ServiceName"
    /\ hist.calls["ServiceName"] = 2
    /\ hist.calls["ServiceInstanceName"] > 0

\* C16: on a record with an empty domain the three names are composed with
\* "local": "<service>.local.", "<instance>.<service>.local." and
\* "_services._dns-sd._udp.local.".
C16_EmptyDomain ==
    (Service.Domain = <<>> /\ step.op \in Getters) =>
        /\ step.op = "ServiceName" =>
              step.ret = Label(Service.Service) \o Dot \o localDomain \o Dot
        /\ (step.op = "ServiceInstanceName" /\ Service.Instance # <<>>) =>
              step.ret = Label(Service.Instance) \o Dot
                           \o Label(Service.Service) \o Dot
                           \o localDomain \o Dot
        /\ step.op = "ServiceTypeName" =>
              step.ret = ServicesPrefix \o localDomain \o Dot

\* ------------------------------------------------------------------------
\* LookupParams: done() and disableProbing()
\* ------------------------------------------------------------------------

NewServiceRecord(instance, service, domain) ==
    [Instance |-> instance, Service |-> service, Domain |-> domain,
     serviceName |-> <<>>, serviceInstanceName |-> <<>>,
     serviceTypeName |-> <<>>]

\* NewLookupParams: the record, the channel of the caller, a fresh
\* stopProbing channel and a sync.Once that has not run.
NewLookupParams(instance, service, domain) ==
    [ServiceRecord |-> NewServiceRecord(instance, service, domain),
     Entries |-> "open", stopProbing |-> "open", once |-> FALSE]

LookupOps == {"done", "disableProbing"}

NoCloses ==
    [closeEntries |-> 0, closeStopProbing |-> 0,
     calls |-> [o \in LookupOps |-> 0]]

InitLookup ==
    /\ build \in Builds
    /\ Service = NoService
    /\ ttl = 0
    /\ ipv4conn = "nil"
    /\ ipv6conn = "nil"
    /\ shuttingDown = FALSE
    /\ shutdownLock = 0
    /\ pcShutdown = [k \in Callers |-> "idle"]
    /\ pcRecv = [c \in Conns |-> "none"]
    /\ pkt = [c \in Conns |-> NoPacket]
    /\ pcProbe = "none"
    /\ probeI = 0
    /\ probeMsg = EmptyMsg
    /\ out = <<>>
    /\ step = [op |-> "none", panic |-> FALSE]
    /\ hist = NoCloses
    /\ lookup \in {NewLookupParams(i, s, d) :
                      i \in NameInstances, s \in NameServices,
                      d \in NameDomains}

\* done(): close(l.Entries).  The close of a closed channel panics.
Done ==
    /\ ~step.panic
    /\ hist.calls["done"] < MaxCalls
    /\ lookup' = [lookup EXCEPT !.Entries = "closed"]
    /\ step' = [op |-> "done", panic |-> lookup.Entries = "closed"]
    /\ hist' = [hist EXCEPT !.calls["done"] = @ + 1,
                            !.closeEntries = @ + 1]
    /\ UNCHANGED <<server, pcShutdown, pcRecv, pkt, pcProbe, probeI,
                   probeMsg, out>>

\* disableProbing(): l.once.Do(func() { close(l.stopProbing) }).
DisableProbing ==
    /\ ~step.panic
    /\ hist.calls["disableProbing"] < MaxCalls
    /\ IF lookup.once
       THEN /\ lookup' = lookup
            /\ step' = [op |-> "disableProbing", panic |-> FALSE]
            /\ hist' = [hist EXCEPT !.calls["disableProbing"] = @ + 1]
       ELSE /\ lookup' = [lookup EXCEPT !.once = TRUE,
                                        !.stopProbing = "closed"]
            /\ step' = [op |-> "disableProbing",
                        panic |-> lookup.stopProbing = "closed"]
            /\ hist' = [hist EXCEPT !.calls["disableProbing"] = @ + 1,
                                    !.closeStopProbing = @ + 1]
    /\ UNCHANGED <<server, pcShutdown, pcRecv, pkt, pcProbe, probeI,
                   probeMsg, out>>

NextLookup ==
    \/ Done
    \/ DisableProbing

SpecLookup == InitLookup /\ [][NextLookup]_vars

\* C17: whatever done() and disableProbing() calls are made, in whatever
\* order, Entries is closed at most once and stopProbing is closed at most
\* once; no close hits a closed channel.
C17_ClosedOnce ==
    /\ hist.closeEntries <= 1
    /\ hist.closeStopProbing <= 1
    /\ ~step.panic

\* ------------------------------------------------------------------------
\* The cache-flush bit
\* ------------------------------------------------------------------------

\* C20: in every packet sent, a record with the cache-flush bit is in the
\* Answer section of a response and is no PTR record; no record of an
\* Authority or Additional section has the bit.
C20_CacheFlush ==
    \A j \in 1..Len(out) :
        LET msg == out[j].msg
        IN  /\ \A i \in 1..Len(msg.answer) :
                  FlushSet(msg.answer[i]) =>
                      msg.response /\ msg.answer[i].rrtype # TypePTR
            /\ \A i \in 1..Len(msg.ns) : ~FlushSet(msg.ns[i])
            /\ \A i \in 1..Len(msg.extra) : ~FlushSet(msg.extra[i])

\* C20, for the responder of src/unnamed/part_000 alone.
C20_CacheFlushPart == build = PartBuild => C20_CacheFlush

\* ------------------------------------------------------------------------
\* The probe/announce driver beside the receive loops
\* ------------------------------------------------------------------------

\* A response of another responder that claims the instance name.
Conflict(e) ==
    [bad |-> FALSE,
     msg |-> [EmptyMsg EXCEPT !.response = TRUE,
                              !.answer = <<ForeignRR(e)>>]]

\* What arrives while the driver runs: a browse query, and the response of
\* a conflicting responder.
ProbePackets(e) == {Ask(ServiceName(e), ClassINET), Conflict(e)}

InitProbe == InitWith(Entries, {defaultTTL})

NextProbe ==
    \/ ProbeSrv
    \/ ProbeTxt
    \/ ProbeSend
    \/ ProbeCompose
    \/ AnnounceSend
    \/ ProbeDone
    \/ \E c \in Conns : RecvTest(c)
    \/ \E c \in Conns : RecvServe(c, ProbePackets(Service))

SpecProbe == InitProbe /\ [][NextProbe]_vars

\* The steps of the driver.
Driver ==
    \/ ProbeSrv
    \/ ProbeTxt
    \/ ProbeSend
    \/ ProbeCompose
    \/ AnnounceSend
    \/ ProbeDone

\* The driver is a task of its own that only sleeps between its sends: it
\* keeps taking steps until it returns.
SpecProbeFair == SpecProbe /\ WF_vars(Driver)

\* A probe: a query with one PTR question on the instance name, no Answer
\* section, and the SRV and the TXT record in its Authority section.
IsProbe(m) ==
    /\ ~m.response
    /\ Len(m.question) = 1
    /\ m.question[1].name = ServiceInstanceName(Service)
    /\ m.question[1].qtype = TypePTR
    /\ m.answer = <<>>
    /\ Len(m.ns) = 2
    /\ {m.ns[1].rrtype, m.ns[2].rrtype} = {TypeSRV, TypeTXT}
    /\ \A i \in 1..2 : m.ns[i].name = ServiceInstanceName(Service)

ScheduledSends == 2

\* C21: the driver sends 2 probes and then 2 announcements, every probe
\* before every announcement, whatever is received meanwhile; a probe is a
\* query with the PTR question and the SRV and TXT records in its Authority
\* section, an announcement is a response with the lookup-answer set.
C21_ProbeThenAnnounce ==
    /\ hist.probes <= ScheduledSends
    /\ hist.announces <= ScheduledSends
    /\ hist.announces > 0 => hist.probes = ScheduledSends
    /\ pcProbe = "done" =>
          hist.probes = ScheduledSends /\ hist.announces = ScheduledSends
    /\ \A j \in 1..Len(out) :
          /\ out[j].kind = "probe" =>
                hist.announces = 0 /\ IsProbe(out[j].msg)
          /\ out[j].kind = "announce" =>
                out[j].msg.response /\ LookupAnswerSet(out[j].msg)

\* C21 for the responder of src/unnamed/part_000 alone.
C21_ProbeThenAnnouncePart == build = PartBuild => C21_ProbeThenAnnounce

\* The latest step served the browse query.
BrowseServed ==
    /\ step.op = "parsePacket"
    /\ step.packet = Ask(ServiceName(Service), ClassINET)

\* C22: a failed send never aborts the driver: after any failure it still
\* makes every scheduled probe and announcement call and then returns, and
\* the registration goes on answering queries.
C22_DriverSurvivesFailures ==
    /\ [](hist.probeLost => <>(pcProbe = "done"))
    /\ [](pcProbe = "done" =>
            /\ hist.probes = Repetitions(build)
            /\ hist.announces = Repetitions(build))
    /\ [](BrowseServed =>
            /\ Len(out) = Cardinality(BoundConns)
            /\ \A j \in 1..Len(out) :
                  out[j].kind = "reply" /\ BrowsingAnswers(out[j].msg))

\* C22 witness: the driver has returned after a send of it failed, and a
\* browse query that arrived afterwards has been answered.
C22_Witness ==
    /\ hist.probeLost
    /\ pcProbe = "done"
    /\ BrowseServed
    /\ out # <<>>
    /\ \A j \in 1..Len(out) : out[j].ok

\* ------------------------------------------------------------------------
\* The receive loops beside Shutdown
\* ------------------------------------------------------------------------

\* s.shutdownLock.Lock(), the test and the write of s.shuttingDown, and
\* s.unregister(), as the one step of a caller that got the lock.
ShutdownBegin(k) ==
    /\ pcShutdown[k] \in {"idle", "done"}
    /\ shutdownLock = 0
    /\ IF shutdownFlagCheck(shuttingDown)
       THEN /\ pcShutdown' = [pcShutdown EXCEPT ![k] = "done"]
            /\ out' = <<>>
            /\ UNCHANGED <<Service, shuttingDown, shutdownLock, hist>>
       ELSE /\ shuttingDown' = TRUE
            /\ shutdownLock' = k
            /\ \E ok \in Oks :
                  /\ out' = Sent(multicastResponse(unregister(build, Service),
                                                   ok), "goodbye", 0)
                  /\ pcShutdown' = [pcShutdown EXCEPT
                                       ![k] = shutdownAfterUnregister(out')]
                  /\ hist' = [hist EXCEPT
                                 !.set = @ + 1,
                                 !.goodbye = @ + 1,
                                 !.lost = \E i \in 1..Len(out') : ~out'[i].ok]
            /\ Service' = Cached(Service, {"ServiceName",
                                           "ServiceInstanceName",
                                           "ServiceTypeName"})
    /\ step' = [op |-> "Shutdown"]
    /\ UNCHANGED <<lookup, build, ttl, ipv4conn, ipv6conn, pcRecv, pkt,
                   pcProbe, probeI, probeMsg>>

\* The two receive loops beside the callers of Shutdown.  A packet is read
\* and parsed in one step.
NextRecv ==
    \/ \E c \in Conns : RecvTest(c)
    \/ \E c \in Conns : RecvError(c)
    \/ \E c \in Conns : RecvServe(c, FewPackets(Service))
    \/ \E k \in Callers : ShutdownBegin(k)
    \/ \E k \in Callers : ShutdownClose4(k)
    \/ \E k \in Callers : ShutdownClose6(k)
    \/ \E k \in Callers : ShutdownReturn(k)

SpecRecv == Init /\ [][NextRecv]_vars

\* ReadFrom on a closed socket returns its error.
ReadClosed(c) == ConnState(c) = "closed" /\ RecvError(c)

\* What a receive loop does without waiting for the network.
RecvRuns(c) == RecvTest(c) \/ ReadClosed(c)

\* What a caller of Shutdown does after s.unregister() has returned.
ShutdownRuns(k) ==
    \/ ShutdownClose4(k)
    \/ ShutdownClose6(k)
    \/ ShutdownReturn(k)

\* Every task keeps running; a read on an open socket may block for ever.
SpecRecvFair ==
    /\ SpecRecv
    /\ \A c \in Conns : WF_vars(RecvRuns(c))
    /\ \A k \in Callers : WF_vars(ShutdownRuns(k))

Exited(c) == pcRecv[c] \in {"exit", "none"}

\* C23: once Shutdown has set the flag, each receive loop exits, from its
\* test of the flag or after the read error of the closed socket; a loop
\* leaves only through its test with the flag set, so no read error and no
\* packet that does not decode ends it while the registration is up.
C23_LoopsExit ==
    /\ shuttingDown ~> Exited("ipv4conn")
    /\ shuttingDown ~> Exited("ipv6conn")
    /\ [][\A c \in Conns :
            (pcRecv[c] # "exit" /\ pcRecv'[c] = "exit")
               => (shuttingDown /\ pcRecv[c] = "test")]_vars

\* C23 witness: both loops ran, Shutdown has closed both sockets, and both
\* loops have exited.
C23_Witness ==
    /\ shuttingDown
    /\ ipv4conn = "closed" /\ ipv6conn = "closed"
    /\ \A c \in Conns : pcRecv[c] = "exit"

\* ------------------------------------------------------------------------
\* The writes of ttl and text and the mutex
\* ------------------------------------------------------------------------

\* C24: a step that writes s.ttl or s.Service.Text is taken only while the
\* mutex of the registration is held.
C24_WritesLocked ==
    [][(ttl' # ttl \/ Service'.Text # Service.Text) => shutdownLock # 0]_vars

\* ------------------------------------------------------------------------
\* One message, one value of ttl and text
\* ------------------------------------------------------------------------

\* All records of m carry one TTL, and all its TXT records one text list.
OneSnapshot(m) ==
    \A i, j \in 1..Len(Records(m)) :
        /\ Records(m)[i].ttl = Records(m)[j].ttl
        /\ (Records(m)[i].rrtype = TypeTXT /\ Records(m)[j].rrtype = TypeTXT)
              => Records(m)[i].rdata = Records(m)[j].rdata

\* C25: every message sent is composed from one value of ttl and one text
\* list: its records all carry the same TTL and its TXT records the same
\* text.
C25_OneSnapshot == \A j \in 1..Len(out) : OneSnapshot(out[j].msg)

\* C25, the part that holds: in part_000 every message but the probe.
C25_OneSnapshotPart ==
    \A j \in 1..Len(out) :
        (build = PartBuild /\ out[j].kind # "probe")
           => OneSnapshot(out[j].msg)

\* ------------------------------------------------------------------------
\* The messages sent, received by a responder
\* ------------------------------------------------------------------------

\* What the responder of build b with entry e sends when m reaches its
\* handleQuery on connection c.
Elicited(b, e, t, c, m) ==
    UNION {Range(handleQuery(b, m, Peer(c), e, t, ok).out) : ok \in Oks}

\* m without its Answer and Authority sections.
QuestionsOnly(m) == [m EXCEPT !.answer = <<>>, !.ns = <<>>]

\* C26: every message sent (probe, announcement, goodbye, TXT announcement,
\* query reply) has an Answer or an Authority section that is not empty, and
\* handleQuery of a responder of either build, for any registration, sends
\* nothing when the message reaches it.
C26_SentElicitsNothing ==
    \A j \in 1..Len(out) :
        /\ out[j].msg.answer # <<>> \/ out[j].msg.ns # <<>>
        /\ \A b \in Builds, e \in Entries, t \in TTLs, c \in Conns :
              Elicited(b, e, t, c, out[j].msg) = {}

\* C26 witness: a reply to a browse query is out; it repeats the question,
\* which the responder would answer again if the reply came without its
\* records.
C26_Witness ==
    \E j \in 1..Len(out) :
        /\ out[j].kind = "reply"
        /\ out[j].ok
        /\ out[j].msg.question # <<>>
        /\ Elicited(build, Service, ttl, out[j].conn, out[j].msg) = {}
        /\ Elicited(build, Service, ttl, out[j].conn,
                    QuestionsOnly(out[j].msg)) # {}

\* ------------------------------------------------------------------------
\* One response per question
\* ------------------------------------------------------------------------

\* The names of a registration that a question can match.
RegistrationNames(e) ==
    {ServiceName(e), ServiceInstanceName(e), e.HostName, ServiceTypeName(e)}

\* The names handleQuestion of build b has a case for.
MatchedNames(b, e) ==
    IF b = PartBuild THEN RegistrationNames(e)
    ELSE RegistrationNames(e) \ {e.HostName}

\* The writes js are one packet: one datagram to the sender, or one
\* multicast packet.
OnePacket(js) ==
    /\ js # {}
    /\ Cardinality(js) = 1 \/ OneMulticast(js)

\* m holds the records the responder gives to question i asked alone, and
\* no other record.
OwnRecordsOnly(i, m) ==
    LET alone == handleQuery(build,
                             [EmptyMsg EXCEPT
                                 !.question = <<step.packet.msg.question[i]>>],
                             step.from, Service, ttl, [c \in Conns |-> TRUE])
    IN  /\ alone.out # <<>>
        /\ \A k \in 1..Len(alone.out) :
              /\ alone.out[k].msg.answer = m.answer
              /\ alone.out[k].msg.ns = m.ns
              /\ alone.out[k].msg.extra = m.extra

\* The handled query is answered question by question: every write answers
\* one question of it; a question with a name of N gets one packet, which
\* holds the records for that question only; any other question gets none.
AnsweredPerQuestion(N) ==
    /\ \A j \in 1..Len(out) :
          /\ out[j].kind = "reply"
          /\ out[j].qi \in 1..Len(step.packet.msg.question)
    /\ \A i \in 1..Len(step.packet.msg.question) :
          IF step.packet.msg.question[i].name \in N
          THEN /\ OnePacket(Replies(i))
               /\ \A j \in Replies(i) : OwnRecordsOnly(i, out[j].msg)
          ELSE Replies(i) = {}

\* C27: a pure query gets one separate response for each of its questions
\* whose name is a name of the registration (service name, instance name,
\* host name, type-enumeration name) and none for its other questions, and
\* each response holds the records for its own question only.
C27_PerQuestion ==
    (Handled /\ PureQuery(step.packet.msg))
       => AnsweredPerQuestion(RegistrationNames(Service))

\* C27 with the host name left to the build: what both builds do.
C27_PerQuestionBuilds ==
    (Handled /\ PureQuery(step.packet.msg))
       => AnsweredPerQuestion(MatchedNames(build, Service))

====
